---- MODULE Spec2Model ----
(***************************************************************************)
(* Scalar coercion (scalars.go) and located errors (located.go).           *)
(*                                                                         *)
(* Every coercion function is pure.  The state of the model is one call:   *)
(* the input, which scalar and which of its three functions was called,    *)
(* and the returned value.  Each action makes one call.                    *)
(***************************************************************************)
EXTENDS Integers, Sequences, FiniteSets

VARIABLES unit, fn, value, node, ret, failure, nodes, located

vars == <<unit, fn, value, node, ret, failure, nodes, located>>

(***************************************************************************)
(* Bounds of the model.                                                    *)
(***************************************************************************)
\* Integer inputs are the values within MaxDelta of a boundary of a Go
\* integer type (and of zero).
MaxDelta == 1
\* NewLocatedError is called with at most MaxNodes nodes.
MaxNodes == 2

(***************************************************************************)
(* Integers of up to 64 bits and more.  An integer is <<a, b, c>> and      *)
(* stands for a * 2^48 + b * 2^24 + c with b and c in 0 .. 2^24 - 1; a     *)
(* carries the sign.  The order is the lexicographic one.                  *)
(***************************************************************************)
B == 2^24

ZNorm(a, b, c) ==
  LET c1 == c % B
      k1 == (c - c1) \div B
      b0 == b + k1
      b1 == b0 % B
      k2 == (b0 - b1) \div B
  IN  <<a + k2, b1, c1>>

Zero == <<0, 0, 0>>
ZInt(n) == ZNorm(0, 0, n)
ZAdd(z, d) == ZNorm(z[1], z[2], z[3] + d)
ZNeg(z) == ZNorm(0 - z[1], 0 - z[2], 0 - z[3])
ZLt(x, y) ==
  \/ x[1] < y[1]
  \/ x[1] = y[1] /\ x[2] < y[2]
  \/ x[1] = y[1] /\ x[2] = y[2] /\ x[3] < y[3]
ZLe(x, y) == x = y \/ ZLt(x, y)
ZAbs(z) == IF ZLt(z, Zero) THEN ZNeg(z) ELSE z
ZMul10Add(z, d) == ZNorm(z[1] * 10, z[2] * 10, z[3] * 10 + d)

\* The boundaries of the Go integer types (package math).
MinInt8 == ZInt(0 - 2^7)
MaxInt8 == ZInt(2^7 - 1)
MaxUint8 == ZInt(2^8 - 1)
MinInt16 == ZInt(0 - 2^15)
MaxInt16 == ZInt(2^15 - 1)
MaxUint16 == ZInt(2^16 - 1)
MinInt32 == <<0 - 1, B - 2^7, 0>>
MaxInt32 == <<0, 2^7 - 1, B - 1>>
MaxUint32 == <<0, 2^8 - 1, B - 1>>
MinInt64 == <<0 - 2^15, 0, 0>>
MaxInt64 == <<2^15 - 1, B - 1, B - 1>>
MaxUint64 == <<2^16 - 1, B - 1, B - 1>>
\* int and uint are 64 bits wide (strconv.IntSize = 64).
MinInt == MinInt64
MaxInt == MaxInt64
MaxUint == MaxUint64

\* The number of bits of n, for 0 <= n < 2^30.
BitLen(n) == IF n = 0 THEN 0 ELSE CHOOSE k \in 1..30 : 2^(k-1) <= n /\ n < 2^k
ZBitLen(z) ==
  IF z[1] > 0 THEN 48 + BitLen(z[1])
  ELSE IF z[2] > 0 THEN 24 + BitLen(z[2])
  ELSE BitLen(z[3])

\* int64(v) of an unsigned 64-bit v: the same 64 bits, read as signed.
WrapInt64(z) == <<((z[1] + 2^15) % 2^16) - 2^15, z[2], z[3]>>

(***************************************************************************)
(* Floating-point values.  A number is [cls, neg, t, frac]: cls is "fin",  *)
(* "inf" or "nan"; for a finite number t is the value truncated toward     *)
(* zero, frac says that it has a fractional part and neg that it is below  *)
(* zero.  Every fractional value of the model is a half.  An integer is    *)
(* the finite number without a fractional part.                            *)
(***************************************************************************)
Num(z) == [cls |-> "fin", neg |-> ZLt(z, Zero), t |-> z, frac |-> FALSE]
NumF(z, neg, frac) == [cls |-> "fin", neg |-> neg, t |-> z, frac |-> frac]
NaN == [cls |-> "nan", neg |-> FALSE, t |-> Zero, frac |-> FALSE]
Inf(neg) == [cls |-> "inf", neg |-> neg, t |-> Zero, frac |-> FALSE]
NumZero == Num(Zero)

\* r < z and r > z for a floating r and an integer z; false for NaN.
FLt(r, z) ==
  \/ r.cls = "inf" /\ r.neg
  \/ r.cls = "fin" /\ (ZLt(r.t, z) \/ (r.t = z /\ r.frac /\ r.neg))
FGt(r, z) ==
  \/ r.cls = "inf" /\ ~r.neg
  \/ r.cls = "fin" /\ (ZLt(z, r.t) \/ (r.t = z /\ r.frac /\ ~r.neg))
\* r != 0; true for NaN.
FNonZero(r) == ~(r.cls = "fin" /\ r.t = Zero /\ ~r.frac)

\* m >= 0 (plus a half when frac) rounded to p bits of mantissa, to nearest
\* and to even on a tie: <<integer part, frac>> of the result.
RoundMag(m, frac, p) ==
  LET L == ZBitLen(m)
      s == L - p
  IN  IF s < 0 THEN <<m, frac>>
      ELSE IF s = 0 THEN
        <<IF frac /\ m[3] % 2 = 1 THEN ZAdd(m, 1) ELSE m, FALSE>>
      ELSE IF s < 24 THEN
        LET q == 2^s
            rem == m[3] % q
            half == q \div 2
            odd == (m[3] \div q) % 2 = 1
            up == rem > half \/ (rem = half /\ (frac \/ odd))
        IN  <<ZNorm(m[1], m[2], m[3] - rem + (IF up THEN q ELSE 0)), FALSE>>
      ELSE
        LET q == 2^(s - 24)
            rem == m[2] % q
            odd == (m[2] \div q) % 2 = 1
            above == IF q = 1 THEN m[3] > 2^23
                     ELSE rem > q \div 2 \/ (rem = q \div 2 /\ (m[3] > 0 \/ frac))
            tie == IF q = 1 THEN m[3] = 2^23 /\ ~frac
                   ELSE rem = q \div 2 /\ m[3] = 0 /\ ~frac
            up == above \/ (tie /\ odd) \/ (q = 1 /\ m[3] = 2^23 /\ frac)
        IN  <<ZNorm(m[1], m[2] - rem + (IF up THEN q ELSE 0), 0), FALSE>>

\* A finite number rounded to a float of p bits of mantissa.
Round(r, p) ==
  IF r.cls # "fin" THEN r
  ELSE LET m == RoundMag(ZAbs(r.t), r.frac, p)
       IN  NumF(IF r.neg THEN ZNeg(m[1]) ELSE m[1], r.neg, m[2])

\* float64(v) of an integer v.
Float64(z) == Round(Num(z), 53)

(***************************************************************************)
(* Texts are sequences of one-character strings.                           *)
(***************************************************************************)
Digits == <<"0", "1", "2", "3", "4", "5", "6", "7", "8", "9">>
IsDigit(ch) == \E i \in 1..10 : Digits[i] = ch
DigitVal(ch) == (CHOOSE i \in 1..10 : Digits[i] = ch) - 1
AllDigits(txt) == \A i \in 1..Len(txt) : IsDigit(txt[i])
Tail2(txt, n) == SubSeq(txt, n, Len(txt))

RECURSIVE ZOfDigits(_, _)
\* The number written by the digits txt, after the digits of z.
ZOfDigits(z, txt) ==
  IF txt = <<>> THEN z
  ELSE ZOfDigits(ZMul10Add(z, DigitVal(Head(txt))), Tail(txt))

RECURSIVE ZDigits(_)
\* The decimal digits of z > 0.
ZDigits(z) ==
  IF z = Zero THEN <<>>
  ELSE LET qa == z[1] \div 10
           x  == (z[1] % 10) * B + z[2]
           qb == x \div 10
           y  == (x % 10) * B + z[3]
       IN  ZDigits(<<qa, qb, y \div 10>>) \o <<Digits[(y % 10) + 1]>>

\* strconv.Itoa / the %v rendering of an integer.
ZToText(z) ==
  IF z = Zero THEN <<"0">>
  ELSE IF ZLt(z, Zero) THEN <<"-">> \o ZDigits(ZNeg(z))
  ELSE ZDigits(z)

\* Results of the parsers: [ok, num].
ParseErr == [ok |-> FALSE, num |-> NumZero]
ParseOk(n) == [ok |-> TRUE, num |-> n]

\* strconv.Atoi: an optional sign and decimal digits; an error for any
\* other text and for a number that does not fit an int.
Atoi(txt) ==
  LET signed == txt # <<>> /\ Head(txt) \in {"+", "-"}
      ds == IF signed THEN Tail(txt) ELSE txt
      m == ZOfDigits(Zero, ds)
      z == IF signed /\ Head(txt) = "-" THEN ZNeg(m) ELSE m
  IN  IF ds = <<>> \/ ~AllDigits(ds) THEN ParseErr
      ELSE IF ZLt(z, MinInt) \/ ZLt(MaxInt, z) THEN ParseErr
      ELSE ParseOk(Num(z))

Lower(ch) ==
  CASE ch = "N" -> "n" [] ch = "A" -> "a" [] ch = "I" -> "i"
    [] ch = "F" -> "f" [] ch = "T" -> "t" [] ch = "Y" -> "y"
    [] OTHER -> ch
LowerText(txt) == [i \in 1..Len(txt) |-> Lower(txt[i])]

\* strconv.ParseFloat(txt, bitSize) for the texts of the model: a decimal
\* number with an optional sign and an optional point, or NaN, or a signed
\* infinity.  (The texts of the model have no exponent, no underscore and no
\* hexadecimal form.)  The result is rounded to bitSize bits; bitSize 0 is
\* read as 64, as strconv does.
ParseFloat(txt, bitSize) ==
  LET signed == txt # <<>> /\ Head(txt) \in {"+", "-"}
      neg == signed /\ Head(txt) = "-"
      body == IF signed THEN Tail(txt) ELSE txt
      low == LowerText(body)
      dots == {i \in 1..Len(body) : body[i] = "."}
      dot == IF dots = {} THEN Len(body) + 1 ELSE CHOOSE i \in dots : TRUE
      ip == SubSeq(body, 1, dot - 1)
      fp == SubSeq(body, dot + 1, Len(body))
      m == ZOfDigits(Zero, ip)
      frac == \E i \in 1..Len(fp) : fp[i] # "0"
      p == IF bitSize = 32 THEN 24 ELSE 53
  IN  IF low = <<"n", "a", "n">> /\ ~signed THEN ParseOk(NaN)
      ELSE IF low \in {<<"i", "n", "f">>, <<"i", "n", "f", "i", "n", "i", "t", "y">>}
        THEN ParseOk(Inf(neg))
      ELSE IF Cardinality(dots) > 1 \/ ~AllDigits(ip) \/ ~AllDigits(fp)
              \/ Len(ip) + Len(fp) = 0
        THEN ParseErr
      ELSE ParseOk(Round(NumF(IF neg THEN ZNeg(m) ELSE m, neg /\ (m # Zero \/ frac), frac), p))

(***************************************************************************)
(* Timestamps (package time).  An internal timestamp is a wall clock       *)
(* reading with nanoseconds and the zone offset in minutes.                *)
(***************************************************************************)
ZeroTime ==
  [year |-> 1, month |-> 1, day |-> 1, hour |-> 0, min |-> 0, sec |-> 0,
   nsec |-> 0, off |-> 0]

\* The number written by at most 9 digits.
RECURSIVE NatOfDigits(_, _)
NatOfDigits(n, txt) ==
  IF txt = <<>> THEN n ELSE NatOfDigits(n * 10 + DigitVal(Head(txt)), Tail(txt))
Nat2(txt, i) == NatOfDigits(0, SubSeq(txt, i, i + 1))

RECURSIVE PadRight(_, _)
PadRight(txt, n) == IF Len(txt) >= n THEN SubSeq(txt, 1, n) ELSE PadRight(txt \o <<"0">>, n)

RECURSIVE PadNat(_, _)
\* n >= 0 written with w digits.
PadNat(n, w) == IF w = 0 THEN <<>> ELSE PadNat(n \div 10, w - 1) \o <<Digits[(n % 10) + 1]>>

RECURSIVE TrimZeros(_)
TrimZeros(txt) ==
  IF txt # <<>> /\ txt[Len(txt)] = "0" THEN TrimZeros(SubSeq(txt, 1, Len(txt) - 1)) ELSE txt

IsLeap(y) == y % 4 = 0 /\ (y % 100 # 0 \/ y % 400 = 0)
DaysIn(m, y) ==
  IF m = 2 THEN (IF IsLeap(y) THEN 29 ELSE 28)
  ELSE IF m \in {4, 6, 9, 11} THEN 30 ELSE 31

TimeErr == [ok |-> FALSE, tm |-> ZeroTime]

\* time.Time.UnmarshalText: the text in the RFC 3339 format
\* "2006-01-02T15:04:05Z07:00", with an optional fraction of the second.
UnmarshalText(txt) ==
  LET shape ==
        /\ Len(txt) >= 20
        /\ AllDigits(SubSeq(txt, 1, 4)) /\ txt[5] = "-"
        /\ AllDigits(SubSeq(txt, 6, 7)) /\ txt[8] = "-"
        /\ AllDigits(SubSeq(txt, 9, 10)) /\ txt[11] = "T"
        /\ AllDigits(SubSeq(txt, 12, 13)) /\ txt[14] = ":"
        /\ AllDigits(SubSeq(txt, 15, 16)) /\ txt[17] = ":"
        /\ AllDigits(SubSeq(txt, 18, 19))
      rest == Tail2(txt, 20)
      fracEnd == IF Head(rest) = "."
                 THEN CHOOSE k \in 1..Len(rest) :
                        /\ \A i \in 2..k : IsDigit(rest[i])
                        /\ (k = Len(rest) \/ ~IsDigit(rest[k + 1]))
                 ELSE 0
      fdigits == SubSeq(rest, 2, fracEnd)
      zone == Tail2(rest, fracEnd + 1)
      zoneOk ==
        \/ zone = <<"Z">>
        \/ /\ Len(zone) = 6 /\ zone[1] \in {"+", "-"} /\ zone[4] = ":"
           /\ AllDigits(SubSeq(zone, 2, 3)) /\ AllDigits(SubSeq(zone, 5, 6))
           /\ Nat2(zone, 2) <= 23 /\ Nat2(zone, 5) <= 59
      off == IF zone = <<"Z">> THEN 0
             ELSE (IF zone[1] = "-" THEN 0 - 1 ELSE 1) * (Nat2(zone, 2) * 60 + Nat2(zone, 5))
      y == NatOfDigits(0, SubSeq(txt, 1, 4))
      mo == Nat2(txt, 6)
      d == Nat2(txt, 9)
      h == Nat2(txt, 12)
      mi == Nat2(txt, 15)
      s == Nat2(txt, 18)
  IN  IF ~shape THEN TimeErr
      ELSE IF fracEnd = 1 \/ ~zoneOk THEN TimeErr
      ELSE IF mo \notin 1..12 \/ d < 1 \/ d > DaysIn(mo, y) \/ h > 23 \/ mi > 59 \/ s > 59
        THEN TimeErr
      ELSE [ok |-> TRUE,
            tm |-> [year |-> y, month |-> mo, day |-> d, hour |-> h, min |-> mi,
                    sec |-> s, nsec |-> NatOfDigits(0, PadRight(fdigits, 9)),
                    off |-> off]]

\* time.Time.MarshalText: the RFC 3339 text with nanoseconds, trailing zeros
\* of the fraction dropped and "Z" for a zero offset; an error for a year
\* outside 0 .. 9999.
MarshalText(tm) ==
  LET fr == TrimZeros(PadNat(tm.nsec, 9))
      a == IF tm.off < 0 THEN 0 - tm.off ELSE tm.off
      zone == IF tm.off = 0 THEN <<"Z">>
              ELSE <<IF tm.off < 0 THEN "-" ELSE "+">> \o PadNat(a \div 60, 2)
                   \o <<":">> \o PadNat(a % 60, 2)
  IN  IF tm.year < 0 \/ tm.year > 9999 THEN [ok |-> FALSE, txt |-> <<>>]
      ELSE [ok |-> TRUE,
            txt |-> PadNat(tm.year, 4) \o <<"-">> \o PadNat(tm.month, 2) \o <<"-">>
                    \o PadNat(tm.day, 2) \o <<"T">> \o PadNat(tm.hour, 2) \o <<":">>
                    \o PadNat(tm.min, 2) \o <<":">> \o PadNat(tm.sec, 2)
                    \o (IF fr = <<>> THEN <<>> ELSE <<".">> \o fr) \o zone]

(***************************************************************************)
(* Go values.  A value is [kind, ref, b, num, s, tm]: kind names the       *)
(* dynamic type, ref is "val" for the type itself, "ptr" for a pointer to  *)
(* it and "nilptr" for the nil pointer of that pointer type; b, num, s     *)
(* and tm hold the boolean, the number, the text and the timestamp.        *)
(* Kind "nil" is the nil interface: an absent input, and the "no value"    *)
(* a coercion returns.  Kind "panic" is a run-time panic of the call.      *)
(***************************************************************************)
Mk(kind, ref) ==
  [kind |-> kind, ref |-> ref, b |-> FALSE, num |-> NumZero, s |-> <<>>, tm |-> ZeroTime]
NoValue == Mk("nil", "val")
Absent == NoValue
Panic == Mk("panic", "val")
MkBool(r, b) == [Mk("bool", r) EXCEPT !.b = b]
MkNum(kind, r, n) == [Mk(kind, r) EXCEPT !.num = n]
MkText(kind, r, txt) == [Mk(kind, r) EXCEPT !.s = txt]
MkTime(r, tm) == [Mk("time", r) EXCEPT !.tm = tm]

SignedKinds == {"int", "int8", "int16", "int32", "int64"}
UnsignedKinds == {"uint", "uint8", "uint16", "uint32", "uint64"}
IntKinds == SignedKinds \cup UnsignedKinds
FloatKinds == {"float32", "float64"}
Refs == {"val", "ptr"}

\* The least and the greatest value of an integer type.
KindMin(kind) ==
  CASE kind = "int8" -> MinInt8 [] kind = "int16" -> MinInt16
    [] kind = "int32" -> MinInt32 [] kind = "int64" -> MinInt64
    [] kind = "int" -> MinInt [] OTHER -> Zero
KindMax(kind) ==
  CASE kind = "int8" -> MaxInt8 [] kind = "int16" -> MaxInt16
    [] kind = "int32" -> MaxInt32 [] kind = "int64" -> MaxInt64
    [] kind = "int" -> MaxInt [] kind = "uint8" -> MaxUint8
    [] kind = "uint16" -> MaxUint16 [] kind = "uint32" -> MaxUint32
    [] kind = "uint64" -> MaxUint64 [] kind = "uint" -> MaxUint

(***************************************************************************)
(* The inputs of the model.                                                *)
(***************************************************************************)
Anchors ==
  {Zero, MinInt8, MaxInt8, MaxUint8, MinInt16, MaxInt16, MaxUint16, MinInt32,
   MaxInt32, MaxUint32, MinInt64, MaxInt64, MaxUint64, <<2^5, 0, 0>>}
Integers0 == {ZAdd(a, d) : a \in Anchors, d \in (0 - MaxDelta)..MaxDelta}
IntsOf(kind) == {z \in Integers0 : ZLe(KindMin(kind), z) /\ ZLe(z, KindMax(kind))}

\* The floats of p bits of mantissa next to the integers of the model.
FloatsOf(p) ==
  {NaN, Inf(FALSE), Inf(TRUE)}
  \cup {Round(Num(z), p) : z \in Integers0}
  \cup {Round(NumF(z, ZLt(z, Zero), TRUE), p) : z \in Integers0}
  \cup {NumF(Zero, TRUE, TRUE)}

\* Texts the model names.
TxtCanonical ==
  <<"2", "0", "2", "1", "-", "0", "1", "-", "0", "2", "T", "0", "3", ":",
  "0", "4", ":", "0", "5", "Z">>
TxtMillis ==
  <<"2", "0", "2", "1", "-", "0", "1", "-", "0", "2", "T", "0", "3", ":",
  "0", "4", ":", "0", "5", ".", "5", "0", "0", "Z">>
TxtMillisCanonical ==
  <<"2", "0", "2", "1", "-", "0", "1", "-", "0", "2", "T", "0", "3", ":",
  "0", "4", ":", "0", "5", ".", "5", "Z">>
TxtPlusZero ==
  <<"2", "0", "2", "1", "-", "0", "1", "-", "0", "2", "T", "0", "3", ":",
  "0", "4", ":", "0", "5", "+", "0", "0", ":", "0", "0">>
TxtLeapOffset ==
  <<"2", "0", "2", "0", "-", "0", "2", "-", "2", "9", "T", "2", "3", ":",
  "5", "9", ":", "5", "9", ".", "1", "2", "3", "-", "0", "7", ":", "3",
  "0">>
TxtNotReal ==
  <<"n", "o", "t", "-", "a", "-", "r", "e", "a", "l", "-", "t", "i", "m",
  "e", "s", "t", "a", "m", "p">>
TxtBadDay ==
  <<"2", "0", "2", "1", "-", "0", "2", "-", "2", "9", "T", "0", "3", ":",
  "0", "4", ":", "0", "5", "Z">>
TxtNaN ==
  <<"N", "a", "N">>
TxtFalse ==
  <<"f", "a", "l", "s", "e">>
TxtNil ==
  <<"<", "n", "i", "l", ">">>

SpecialTexts ==
  {<<>>,
   <<"a", "b", "c">>,
   TxtFalse,
   <<"t", "r", "u", "e">>,
   TxtNaN,
   <<"n", "a", "n">>,
   <<"I", "n", "f">>,
   <<"-", "I", "n", "f">>,
   <<"+", "5">>,
   <<".">>,
   <<"1", ".", "0">>,
   <<"-", "0", ".", "5">>,
   <<"1", ".", "2", ".", "3">>,
   TxtNil,
   TxtCanonical,
   TxtMillis,
   TxtMillisCanonical,
   TxtPlusZero,
   TxtLeapOffset,
   TxtBadDay,
   <<"2", "0", "2", "1", "-", "0", "1", "-", "0", "2", " ", "0", "3", ":", "0", "4", ":", "0", "5", "Z">>,
   <<"2", "0", "2", "1", "-", "0", "1", "-", "0", "2", "T", "0", "3", ":", "0", "4", ":", "0", "5">>,
   <<"2", "0", "2", "1", "-", "1", "3", "-", "0", "2", "T", "0", "3", ":", "0", "4", ":", "0", "5", "Z">>,
   <<"2", "0", "2", "1", "-", "0", "1", "-", "0", "2", "T", "2", "4", ":", "0", "4", ":", "0", "5", "Z">>,
   <<"2", "0", "2", "1", "-", "0", "1", "-", "0", "2", "T", "0", "3", ":", "0", "4", ":", "0", "5", ".", "Z">>,
   TxtNotReal}
Texts ==
  SpecialTexts
  \cup {ZToText(z) : z \in Integers0}
  \cup {ZToText(z) \o <<".", "5">> : z \in Integers0}

\* Timestamps: those the texts of the model denote, and one of the year
\* 10000, which time.Date builds and MarshalText refuses.
Times ==
  {UnmarshalText(t).tm : t \in {x \in SpecialTexts : UnmarshalText(x).ok}}
  \cup {[ZeroTime EXCEPT !.year = 10000]}

Values ==
  {Absent}
  \cup {MkBool(r, b) : r \in Refs, b \in BOOLEAN}
  \cup UNION {{MkNum(k, r, Num(z)) : r \in Refs, z \in IntsOf(k)} : k \in IntKinds}
  \cup {MkNum("float32", r, f) : r \in Refs, f \in FloatsOf(24)}
  \cup {MkNum("float64", r, f) : r \in Refs, f \in FloatsOf(53)}
  \cup {MkText("string", r, t) : r \in Refs, t \in Texts}
  \cup {MkText("bytes", "val", t) : t \in Texts}
  \cup {MkText("stringer", "val", t) : t \in SpecialTexts}
  \cup {MkTime(r, tm) : r \in Refs, tm \in Times}
  \cup {Mk("other", r) : r \in Refs}
  \cup {Mk(k, "nilptr") :
          k \in IntKinds \cup FloatKinds \cup {"bool", "string", "time", "other"}}

\* What int64(f) gives for a float f that no int64 holds (NaN, an infinity,
\* a number beyond 64 bits).  The language leaves it to the implementation:
\* the least int64 on amd64, 0 (for NaN) or the nearest int64 elsewhere.
Indefinite == {MinInt64, Zero, MaxInt64}

\* What fmt renders for a value whose text the model does not compute (a
\* pointer's address, a float, a struct): any of these texts.
Renderings == {<<"0", "x", "c", "0">>, <<"1", ".", "5">>, <<>>}

(***************************************************************************)
(* Literal nodes (language/ast).  A node is [kind, Value, b, nilptr]: the  *)
(* Value of a BooleanValue is b, of every other kind the text Value;       *)
(* nilptr is a nil pointer of the node type; kind "nil" is no node.        *)
(***************************************************************************)
MkNode(kind, txt, b, np) == [kind |-> kind, Value |-> txt, b |-> b, nilptr |-> np]
NoNode == MkNode("nil", <<>>, FALSE, FALSE)
TextNodeKinds == {"IntValue", "FloatValue", "StringValue", "EnumValue"}
NodeKinds == TextNodeKinds \cup {"BooleanValue", "ListValue"}
Nodes ==
  {NoNode}
  \cup {MkNode(k, t, FALSE, FALSE) : k \in TextNodeKinds, t \in Texts}
  \cup {MkNode("BooleanValue", <<>>, b, FALSE) : b \in BOOLEAN}
  \cup {MkNode("ListValue", <<>>, FALSE, FALSE)}
  \cup {MkNode(k, <<>>, FALSE, TRUE) : k \in NodeKinds}

(***************************************************************************)
(* scalars.go: Int.                                                        *)
(***************************************************************************)
\* The cases of the type switch of coerceInt and coerceFloat.
NumericCases == {"bool", "string"} \cup IntKinds \cup FloatKinds

\* int64(f) of a float f.
Int64OfFloat(f, indef) ==
  IF f.cls = "fin" /\ ZLe(MinInt64, f.t) /\ ZLe(f.t, MaxInt64) THEN f.t ELSE indef

\* r, as the case of the input's kind leaves it; it stays 0 in the cases
\* that do not assign it.
coerceIntR(v) ==
  CASE v.kind \in {"uint", "uint64"} -> Float64(v.num.t)
    [] v.kind \in FloatKinds -> v.num
    [] v.kind = "string" -> ParseFloat(v.s, 0).num
    [] OTHER -> NumZero

\* i, as the case of the input's kind leaves it.
coerceIntI(v, indef) ==
  CASE v.kind = "bool" -> IF v.b THEN ZInt(1) ELSE ZInt(0)
    [] v.kind \in {"uint", "uint64"} -> WrapInt64(v.num.t)
    [] v.kind \in IntKinds \ {"uint", "uint64"} -> v.num.t
    [] v.kind \in FloatKinds -> Int64OfFloat(v.num, indef)
    [] v.kind = "string" -> Int64OfFloat(ParseFloat(v.s, 0).num, indef)

\* Faulty variant: the range check without the check of r.
OutOfRangeIntOnly(r, i) == ZLt(i, MinInt32) \/ ZLt(MaxInt32, i)

\* "If the value is out of range, return nil instead of '0'".
OutOfRange(r, i) ==
  \/ FLt(r, MinInt32) \/ FGt(r, MaxInt32)
  \/ ZLt(i, MinInt32) \/ ZLt(MaxInt32, i)

coerceInt(v, indef) ==
  IF v.kind \notin NumericCases THEN NoValue
  ELSE IF v.ref = "nilptr" THEN Panic
  ELSE IF v.kind = "string" /\ ~ParseFloat(v.s, 0).ok THEN NoValue
  ELSE IF OutOfRange(coerceIntR(v), coerceIntI(v, indef)) THEN NoValue
  ELSE MkNum("int", "val", Num(coerceIntI(v, indef)))

\* Faulty variant: the literal path with the 32-bit range check of the value path.
IntParseLiteralBounded(n) ==
  IF n.kind = "IntValue" THEN
    IF n.nilptr THEN Panic
    ELSE IF Atoi(n.Value).ok /\ ~OutOfRange(NumZero, Atoi(n.Value).num.t)
      THEN MkNum("int", "val", Atoi(n.Value).num)
    ELSE NoValue
  ELSE NoValue

IntParseLiteral(n) ==
  IF n.kind = "IntValue" THEN
    IF n.nilptr THEN Panic
    ELSE IF Atoi(n.Value).ok THEN MkNum("int", "val", Atoi(n.Value).num)
    ELSE NoValue
  ELSE NoValue

(***************************************************************************)
(* scalars.go: Float.                                                      *)
(***************************************************************************)
\* Faulty variant: nil for the kinds the type switch does not list, as coerceInt.
coerceFloatNil(v) ==
  IF v.kind \notin NumericCases THEN NoValue
  ELSE IF v.ref = "nilptr" THEN Panic
  ELSE IF v.kind = "bool" THEN MkNum("float64", "val", Num(IF v.b THEN ZInt(1) ELSE ZInt(0)))
  ELSE IF v.kind \in IntKinds THEN MkNum("float64", "val", Float64(v.num.t))
  ELSE IF v.kind = "float32" THEN MkNum("float32", "val", v.num)
  ELSE IF v.kind = "float64" THEN MkNum("float64", "val", v.num)
  ELSE IF ParseFloat(v.s, 0).ok THEN MkNum("float64", "val", ParseFloat(v.s, 0).num)
  ELSE NoValue

coerceFloat(v) ==
  IF v.kind \notin NumericCases THEN MkNum("float64", "val", NumZero)
  ELSE IF v.ref = "nilptr" THEN Panic
  ELSE IF v.kind = "bool" THEN MkNum("float64", "val", Num(IF v.b THEN ZInt(1) ELSE ZInt(0)))
  ELSE IF v.kind \in IntKinds THEN MkNum("float64", "val", Float64(v.num.t))
  ELSE IF v.kind = "float32" THEN MkNum("float32", "val", v.num)
  ELSE IF v.kind = "float64" THEN MkNum("float64", "val", v.num)
  ELSE IF ParseFloat(v.s, 0).ok THEN MkNum("float64", "val", ParseFloat(v.s, 0).num)
  ELSE NoValue

FloatParseLiteral(n) ==
  IF n.kind \in {"FloatValue", "IntValue"} THEN
    IF n.nilptr THEN Panic
    ELSE IF ParseFloat(n.Value, 32).ok
      THEN MkNum("float64", "val", ParseFloat(n.Value, 32).num)
    ELSE NoValue
  ELSE NoValue

(***************************************************************************)
(* scalars.go: String and ID.                                              *)
(***************************************************************************)
\* fmt.Sprintf("%v", v): computed for nil, nil pointers, booleans and
\* integers; for every other value it is the text rendered.
Sprintf(v, rendered) ==
  IF v.kind = "nil" \/ v.ref = "nilptr" THEN TxtNil
  ELSE IF v.ref = "ptr" THEN rendered
  ELSE IF v.kind = "bool" THEN
    (IF v.b THEN <<"t", "r", "u", "e">> ELSE TxtFalse)
  ELSE IF v.kind \in IntKinds THEN ZToText(v.num.t)
  ELSE rendered

\* time.Time and *time.Time have a String method, and so has every
\* "stringer", which returns its text.
coerceString(v, rendered) ==
  IF v.kind = "string" THEN
    (IF v.ref = "nilptr" THEN Panic ELSE MkText("string", "val", v.s))
  ELSE IF v.kind = "stringer" THEN MkText("string", "val", v.s)
  ELSE IF v.kind = "time" THEN
    (IF v.ref = "nilptr" THEN Panic ELSE MkText("string", "val", rendered))
  ELSE MkText("string", "val", Sprintf(v, rendered))

StringParseLiteral(n) ==
  IF n.kind = "StringValue" THEN
    (IF n.nilptr THEN Panic ELSE MkText("string", "val", n.Value))
  ELSE NoValue

IDParseLiteral(n) ==
  IF n.kind \in {"IntValue", "StringValue"} THEN
    (IF n.nilptr THEN Panic ELSE MkText("string", "val", n.Value))
  ELSE NoValue

(***************************************************************************)
(* scalars.go: Boolean.                                                    *)
(***************************************************************************)
\* Faulty variant: the type switch without its bool cases.
coerceBoolNoBoolCase(v) ==
  IF v.kind \in {"string", "float64", "float32", "int"} THEN
    IF v.ref = "nilptr" THEN Panic
    ELSE IF v.kind = "string"
      THEN MkBool("val", v.s \notin {<<>>, TxtFalse})
    ELSE MkBool("val", FNonZero(v.num))
  ELSE MkBool("val", FALSE)

coerceBool(v) ==
  IF v.kind \in {"bool", "string", "float64", "float32", "int"} THEN
    IF v.ref = "nilptr" THEN Panic
    ELSE IF v.kind = "bool" THEN MkBool("val", v.b)
    ELSE IF v.kind = "string"
      THEN MkBool("val", v.s \notin {<<>>, TxtFalse})
    ELSE MkBool("val", FNonZero(v.num))
  ELSE MkBool("val", FALSE)

BooleanParseLiteral(n) ==
  IF n.kind = "BooleanValue" THEN
    (IF n.nilptr THEN Panic ELSE MkBool("val", n.b))
  ELSE NoValue

(***************************************************************************)
(* scalars.go: DateTime.                                                   *)
(***************************************************************************)
serializeDateTime(v) ==
  IF v.kind = "time" THEN
    IF v.ref = "nilptr" THEN Panic
    ELSE IF MarshalText(v.tm).ok THEN MkText("string", "val", MarshalText(v.tm).txt)
    ELSE NoValue
  ELSE NoValue

\* Faulty variant: the type switch without its []byte case.
unserializeDateTimeStringsOnly(v) ==
  IF v.kind = "string" /\ v.ref # "nilptr" THEN
    IF UnmarshalText(v.s).ok THEN MkTime("val", UnmarshalText(v.s).tm) ELSE NoValue
  ELSE IF v.kind = "string" THEN Panic
  ELSE NoValue

unserializeDateTime(v) ==
  IF v.kind = "bytes" \/ (v.kind = "string" /\ v.ref # "nilptr") THEN
    IF UnmarshalText(v.s).ok THEN MkTime("val", UnmarshalText(v.s).tm) ELSE NoValue
  ELSE IF v.kind = "string" THEN Panic
  ELSE NoValue

\* Faulty variant: the literal path parsing the text as the value path does.
DateTimeParseLiteralParsed(n) ==
  IF n.kind = "StringValue" THEN
    (IF n.nilptr THEN Panic ELSE unserializeDateTime(MkText("string", "val", n.Value)))
  ELSE NoValue

DateTimeParseLiteral(n) ==
  IF n.kind = "StringValue" THEN
    (IF n.nilptr THEN Panic ELSE MkText("string", "val", n.Value))
  ELSE NoValue

(***************************************************************************)
(* located.go.                                                             *)
(***************************************************************************)
\* A failure is [kind, id, msg]: kind "error" is a value with an Error
\* method, id its identity and msg the message it returns; kind "string" is
\* the string msg; kind "other" is anything else (an int, nil, ...).
MkFailure(kind, id, msg) == [kind |-> kind, id |-> id, msg |-> msg]
NoFailure == MkFailure("other", "nil", "")
Messages == {"boom", "", "An unknown error occurred."}
Failures ==
  {MkFailure("error", id, m) : id \in {"e1", "e2"}, m \in Messages}
  \cup {MkFailure("string", "", m) : m \in Messages}
  \cup {MkFailure("other", id, "") : id \in {"nil", "int", "bool"}}

\* The underlying error that is absent, one that is kept, and errors.New.
NoCause == [present |-> FALSE, id |-> "", msg |-> ""]
Cause(id, msg) == [present |-> TRUE, id |-> id, msg |-> msg]
errorsNew(text) == Cause("new", text)

AstNodes == {"nodeA", "nodeB", "nodeC"}
NodeSeqs == UNION {[1..n -> AstNodes] : n \in 0..MaxNodes}

\* gqlerrors.NewError, as far as the fields of the Located Error go.
NewError(message, ns, stack, origError) ==
  [Message |-> message, Nodes |-> ns, Stack |-> stack, OriginalError |-> origError]
NoError == NewError("", <<>>, "", NoCause)

\* Faulty variant: a plain string keeps its message but is not wrapped in an error.
NewLocatedErrorNoWrap(err, ns) ==
  LET message == IF err.kind \in {"error", "string"} THEN err.msg
                 ELSE "An unknown error occurred."
      origError == IF err.kind = "error" THEN Cause(err.id, err.msg) ELSE NoCause
      stack == message
  IN  NewError(message, ns, stack, origError)

NewLocatedError(err, ns) ==
  LET message == IF err.kind \in {"error", "string"} THEN err.msg
                 ELSE "An unknown error occurred."
      origError == IF err.kind = "error" THEN Cause(err.id, err.msg)
                   ELSE IF err.kind = "string" THEN errorsNew(err.msg)
                   ELSE NoCause
      stack == message
  IN  NewError(message, ns, stack, origError)

(***************************************************************************)
(* The calls.  A behaviour starts with an input, a value or a literal      *)
(* node, and makes one call on it.                                         *)
(***************************************************************************)
Init ==
  /\ unit = "none" /\ fn = "none" /\ ret = NoValue
  /\ \/ value \in Values /\ node = NoNode
     \/ value = Absent /\ node \in Nodes
  /\ failure = NoFailure /\ nodes = <<>> /\ located = NoError

\* The call of function f of scalar u is made.
Made(u, f) ==
  /\ unit' = u /\ fn' = f
  /\ UNCHANGED <<value, node, failure, nodes, located>>

IntSerialize ==
  /\ fn = "none" /\ node = NoNode
  /\ \E indef \in Indefinite : ret' = coerceInt(value, indef)
  /\ Made("Int", "Serialize")
IntParseValue ==
  /\ fn = "none" /\ node = NoNode
  /\ \E indef \in Indefinite : ret' = coerceInt(value, indef)
  /\ Made("Int", "ParseValue")
IntParseLiteralCall ==
  /\ fn = "none" /\ value = Absent
  /\ ret' = IntParseLiteral(node)
  /\ Made("Int", "ParseLiteral")

FloatSerialize ==
  /\ fn = "none" /\ node = NoNode
  /\ ret' = coerceFloat(value)
  /\ Made("Float", "Serialize")
FloatParseValue ==
  /\ fn = "none" /\ node = NoNode
  /\ ret' = coerceFloat(value)
  /\ Made("Float", "ParseValue")
FloatParseLiteralCall ==
  /\ fn = "none" /\ value = Absent
  /\ ret' = FloatParseLiteral(node)
  /\ Made("Float", "ParseLiteral")

StringSerialize ==
  /\ fn = "none" /\ node = NoNode
  /\ \E rendered \in Renderings : ret' = coerceString(value, rendered)
  /\ Made("String", "Serialize")
StringParseValue ==
  /\ fn = "none" /\ node = NoNode
  /\ \E rendered \in Renderings : ret' = coerceString(value, rendered)
  /\ Made("String", "ParseValue")
StringParseLiteralCall ==
  /\ fn = "none" /\ value = Absent
  /\ ret' = StringParseLiteral(node)
  /\ Made("String", "ParseLiteral")

BooleanSerialize ==
  /\ fn = "none" /\ node = NoNode
  /\ ret' = coerceBool(value)
  /\ Made("Boolean", "Serialize")
BooleanParseValue ==
  /\ fn = "none" /\ node = NoNode
  /\ ret' = coerceBool(value)
  /\ Made("Boolean", "ParseValue")
BooleanParseLiteralCall ==
  /\ fn = "none" /\ value = Absent
  /\ ret' = BooleanParseLiteral(node)
  /\ Made("Boolean", "ParseLiteral")

IDSerialize ==
  /\ fn = "none" /\ node = NoNode
  /\ \E rendered \in Renderings : ret' = coerceString(value, rendered)
  /\ Made("ID", "Serialize")
IDParseValue ==
  /\ fn = "none" /\ node = NoNode
  /\ \E rendered \in Renderings : ret' = coerceString(value, rendered)
  /\ Made("ID", "ParseValue")
IDParseLiteralCall ==
  /\ fn = "none" /\ value = Absent
  /\ ret' = IDParseLiteral(node)
  /\ Made("ID", "ParseLiteral")

DateTimeSerialize ==
  /\ fn = "none" /\ node = NoNode
  /\ ret' = serializeDateTime(value)
  /\ Made("DateTime", "Serialize")
DateTimeParseValue ==
  /\ fn = "none" /\ node = NoNode
  /\ ret' = unserializeDateTime(value)
  /\ Made("DateTime", "ParseValue")
DateTimeParseLiteralCall ==
  /\ fn = "none" /\ value = Absent
  /\ ret' = DateTimeParseLiteral(node)
  /\ Made("DateTime", "ParseLiteral")

Next ==
  \/ IntSerialize \/ IntParseValue \/ IntParseLiteralCall
  \/ FloatSerialize \/ FloatParseValue \/ FloatParseLiteralCall
  \/ StringSerialize \/ StringParseValue \/ StringParseLiteralCall
  \/ BooleanSerialize \/ BooleanParseValue \/ BooleanParseLiteralCall
  \/ IDSerialize \/ IDParseValue \/ IDParseLiteralCall
  \/ DateTimeSerialize \/ DateTimeParseValue \/ DateTimeParseLiteralCall

Spec == Init /\ [][Next]_vars

\* NewLocatedError is called once, on a failure and a sequence of nodes.
LocatedInit ==
  /\ unit = "none" /\ fn = "none" /\ ret = NoValue
  /\ value = Absent /\ node = NoNode
  /\ failure \in Failures /\ nodes \in NodeSeqs /\ located = NoError

NewLocatedErrorCall ==
  /\ fn = "none"
  /\ fn' = "NewLocatedError"
  /\ located' = NewLocatedError(failure, nodes)
  /\ UNCHANGED <<unit, value, node, ret, failure, nodes>>

LocatedNext == NewLocatedErrorCall

LocatedSpec == LocatedInit /\ [][LocatedNext]_vars

(***************************************************************************)
(* The claims.                                                             *)
(***************************************************************************)
ValueCall == fn \in {"Serialize", "ParseValue"}
InInt32(z) == ZLe(MinInt32, z) /\ ZLe(z, MaxInt32)
IntOf(z) == MkNum("int", "val", Num(z))

\* C1: for an integer input x of any signed or unsigned width, by value or
\* by reference, Int.ParseValue and Int.Serialize return x when x is in
\* [-2^31, 2^31 - 1] and "no value" when it is not.
C1_IntegerInputs ==
  (unit = "Int" /\ ValueCall /\ value.kind \in IntKinds /\ value.ref \in Refs)
    => ret = (IF InInt32(value.num.t) THEN IntOf(value.num.t) ELSE NoValue)

\* A uint64 above 2^63, whose int64 is in range, is refused.
C1_Witness ==
  /\ unit = "Int" /\ fn = "ParseValue"
  /\ value = MkNum("uint64", "ptr", Num(MaxUint64))
  /\ ret = NoValue

\* C2: no call of Serialize, ParseValue or ParseLiteral of any scalar
\* raises a fault, whatever the input.
C2_NeverRaises == fn # "none" => ret # Panic

\* C3: Boolean.ParseValue and Boolean.Serialize return a boolean: the input
\* itself for a boolean, false for the strings "" and "false" and true for
\* every other string, "nonzero" for a number of any integer or floating
\* kind, and false for every other kind.
C3_BooleanCoercion ==
  (unit = "Boolean" /\ ValueCall /\ value.ref # "nilptr")
    => ret = MkBool("val",
                CASE value.kind = "bool" -> value.b
                  [] value.kind = "string" -> value.s \notin {<<>>, TxtFalse}
                  [] value.kind \in IntKinds \cup FloatKinds -> value.num # NumZero
                  [] OTHER -> FALSE)

\* f lies in [-2^31, 2^31 - 1].
FloatInInt32(f) ==
  /\ f.cls = "fin" /\ InInt32(f.t)
  /\ ~(f.frac /\ f.t = MaxInt32 /\ ~f.neg)
  /\ ~(f.frac /\ f.t = MinInt32 /\ f.neg)

\* C4: for a string input s, and for a floating input, Int.ParseValue is
\* "no value" when s is no floating-point literal; otherwise it is the
\* number f truncated toward zero when f lies in [-2^31, 2^31 - 1], and
\* "no value" when it does not.
C4_StringAndFloatInputs ==
  (unit = "Int" /\ ValueCall /\ value.ref \in Refs
     /\ value.kind \in FloatKinds \cup {"string"})
    => LET p == IF value.kind = "string" THEN ParseFloat(value.s, 0)
                ELSE ParseOk(value.num)
       IN  ret = (IF p.ok /\ FloatInInt32(p.num) THEN IntOf(p.num.t) ELSE NoValue)

IsIntText(txt) ==
  LET ds == IF txt # <<>> /\ Head(txt) \in {"+", "-"} THEN Tail(txt) ELSE txt
  IN  ds # <<>> /\ AllDigits(ds)

\* C5: Int.ParseLiteral returns a value only for an integer literal node
\* whose text is an integer that fits the platform integer, and then that
\* integer, whether or not it is in [-2^31, 2^31 - 1]; "no value" for every
\* other node.
C5_IntLiteral ==
  (unit = "Int" /\ fn = "ParseLiteral" /\ ~node.nilptr)
    => /\ ret # NoValue => node.kind = "IntValue" /\ IsIntText(node.Value)
       /\ ret # NoValue => ret.kind = "int" /\ ret.num.cls = "fin" /\ ~ret.num.frac
       /\ \A z \in Integers0 :
            (node.kind = "IntValue" /\ node.Value = ZToText(z))
              => ret = (IF ZLe(MinInt, z) /\ ZLe(z, MaxInt) THEN IntOf(z) ELSE NoValue)

\* The literal 2147483648 is returned as it is.
C5_Witness ==
  /\ unit = "Int" /\ fn = "ParseLiteral"
  /\ node.kind = "IntValue" /\ node.Value = ZToText(ZAdd(MaxInt32, 1))
  /\ ret = IntOf(ZAdd(MaxInt32, 1))

\* C6: Float.ParseValue and Float.Serialize return 0.0 for an input of a
\* kind they do not support and for an absent input, and "no value" only
\* for a string that is no floating literal; Int.ParseValue returns
\* "no value" for the unsupported inputs.
C6_FloatUnsupported ==
  /\ (unit = "Float" /\ ValueCall /\ value.kind \notin NumericCases)
       => ret = MkNum("float64", "val", NumZero)
  /\ (unit = "Float" /\ ValueCall /\ ret = NoValue)
       => value.kind = "string" /\ value.ref \in Refs /\ ~ParseFloat(value.s, 0).ok
  /\ (unit = "Int" /\ ValueCall /\ value.kind \notin NumericCases)
       => ret = NoValue

C6_Witness ==
  /\ unit = "Float" /\ fn = "ParseValue"
  /\ value = Mk("other", "val")
  /\ ret = MkNum("float64", "val", NumZero)

\* The texts of the model that are timestamps in the standard format, and
\* the canonical text of each.
ValidTimestamps == {TxtCanonical, TxtMillis, TxtMillisCanonical, TxtPlusZero, TxtLeapOffset}
CanonicalText(t) ==
  CASE t = TxtMillis -> TxtMillisCanonical
    [] t = TxtPlusZero -> TxtCanonical
    [] OTHER -> t

\* C7: DateTime.ParseLiteral returns the raw text of a string literal node,
\* a timestamp or not, and "no value" for every other node; of a text that
\* is no timestamp DateTime.ParseValue is "no value".
C7_DateTimeLiteral ==
  (unit = "DateTime" /\ fn = "ParseLiteral" /\ ~node.nilptr)
    => /\ ret = (IF node.kind = "StringValue"
                 THEN MkText("string", "val", node.Value) ELSE NoValue)
       /\ (node.kind = "StringValue" /\ node.Value \notin ValidTimestamps)
            => unserializeDateTime(MkText("string", "val", node.Value)) = NoValue

C7_Witness ==
  /\ unit = "DateTime" /\ fn = "ParseLiteral"
  /\ node.kind = "StringValue" /\ node.Value = TxtNotReal
  /\ ret = MkText("string", "val", TxtNotReal)

\* C8: NewLocatedError(failure, nodes) returns an error with the nodes
\* given, in their order, and with Stack = Message; of a structured error
\* Message is its message and the cause is that error; of a string Message
\* is the string and the cause a new error with that text; of any other
\* failure Message is "An unknown error occurred." and there is no cause.
C8_LocatedError ==
  fn = "NewLocatedError"
    => /\ located.Nodes = nodes
       /\ located.Stack = located.Message
       /\ failure.kind = "error"
            => /\ located.Message = failure.msg
               /\ located.OriginalError = Cause(failure.id, failure.msg)
       /\ failure.kind = "string"
            => /\ located.Message = failure.msg
               /\ located.OriginalError = Cause("new", failure.msg)
       /\ failure.kind = "other"
            => /\ located.Message = "An unknown error occurred."
               /\ ~located.OriginalError.present

C8_Witness ==
  /\ fn = "NewLocatedError"
  /\ failure = MkFailure("string", "", "boom")
  /\ nodes = <<"nodeA", "nodeB">>
  /\ located.Message = "boom" /\ located.Nodes = <<"nodeA", "nodeB">>

\* C9: of a timestamp text t (a string, a reference to one, or bytes)
\* DateTime.ParseValue is a timestamp v, and DateTime.Serialize(v) is the
\* canonical text of v, which is t when t is canonical; DateTime.Serialize
\* is "no value" for an input that is no timestamp, and DateTime.ParseValue
\* for a text that is no timestamp and for an input that is no text.
C9_DateTimeRoundTrip ==
  /\ (unit = "DateTime" /\ fn = "ParseValue" /\ value.ref \in Refs
        /\ value.kind \in {"string", "bytes"})
       => IF value.s \in ValidTimestamps
          THEN /\ ret.kind = "time"
               /\ serializeDateTime(ret) = MkText("string", "val", CanonicalText(value.s))
          ELSE ret = NoValue
  /\ (unit = "DateTime" /\ fn = "ParseValue" /\ value.kind \notin {"string", "bytes"})
       => ret = NoValue
  /\ (unit = "DateTime" /\ fn = "Serialize" /\ value.kind # "time")
       => ret = NoValue

C9_Witness ==
  /\ unit = "DateTime" /\ fn = "ParseValue"
  /\ value = MkText("bytes", "val", TxtMillis)
  /\ ret.kind = "time" /\ ret.tm.nsec = 500000000
  /\ serializeDateTime(ret).s = TxtMillisCanonical

\* C10: for Int, Float, String, Boolean and ID, a value v that ParseValue
\* returns is returned again by Serialize(v) and by ParseValue(v).
C10_StableOnResults ==
  (fn = "ParseValue" /\ ret.kind \notin {"nil", "panic"})
    => /\ unit = "Int" => \A indef \in Indefinite : coerceInt(ret, indef) = ret
       /\ unit = "Float" => coerceFloat(ret) = ret
       /\ unit \in {"String", "ID"}
            => \A rendered \in Renderings : coerceString(ret, rendered) = ret
       /\ unit = "Boolean" => coerceBool(ret) = ret

C10_Witness ==
  /\ unit = "Boolean" /\ fn = "ParseValue"
  /\ value = MkText("string", "val", <<"a", "b", "c">>)
  /\ ret = MkBool("val", TRUE)

====
